---- MODULE Spec2Model ----
(***************************************************************************)
(* WeaviateVectorStore (src/mirascope/weaviate/vectorstores.py): a store   *)
(* instance with two cached properties (_client, _index) and the three     *)
(* public operations add, retrieve and close_connection.  The weaviate     *)
(* client library and the chunker are the environment: every call into     *)
(* them is recorded in `calls`, and its outcome (a return value or a       *)
(* raised error) is chosen by the environment.                             *)
(***************************************************************************)
EXTENDS Integers, Sequences, FiniteSets, TLC

\* ------------------------------------------------------------- bounds
MaxOps == 2          \* operations performed on one store instance
MaxDocs == 2         \* longest document list / chunker result / query response

\* ------------------------------------------------------------- values
NoneVal == "None"                       \* Python None
NoErr == ""                             \* the operation did not raise
IndexError == "IndexError"              \* raised by list[0] on an empty list
Errors == {"ClientError"}               \* what a call into the library or the chunker raises
NoKw == "{}"                            \* no keyword arguments
Kwargs == {NoKw, "{k=1}"}               \* **kwargs of add / retrieve
SettingsKwargs == "client_settings.kwargs()"
Modes == {"local", "embedded", "cloud", "custom"}
IndexNames == {NoneVal, "", "A"}        \* index_name: unset, empty, set
ParamNames == {NoneVal, "B"}            \* vectorstore_params.name
\* The (text, **kwargs) pairs add and retrieve are called with.
TextArgs == {[text |-> "s1", kw |-> NoKw], [text |-> "s2", kw |-> "{k=1}"]}
\* Documents (text, id) and the objects of a query response: as many distinct
\* ones as the longest list holds.
Texts == <<"t1", "t2", "t3", "t4">>
Uuids == <<"u1", "u2", "u3", "u4">>
ObjectNames == <<"o1", "o2", "o3", "o4">>

DocPool == [i \in 1..MaxDocs |-> [text |-> Texts[i], id |-> Uuids[i]]]
ObjectPool == [i \in 1..MaxDocs |-> ObjectNames[i]]

\* The lists add is given, the chunker returns and a query answers: the empty
\* list, one element, and so on up to MaxDocs distinct elements.
Prefixes(pool) == {SubSeq(pool, 1, n) : n \in 0..Len(pool)}
DocLists == Prefixes(DocPool)
Responses == Prefixes(ObjectPool)

\* The calls into the client library that can raise, and the chunker.
FailPoints == {"connect", "exists", "get", "create", "insert", "insert_many",
               "near_text", "close", "chunk"}
NoFault == [at |-> "none", err |-> NoErr]
Faults == {NoFault} \cup [at : FailPoints, err : Errors]

VARIABLES
  mode,          \* client_settings.mode
  index_name,    \* index_name class attribute
  params_name,   \* vectorstore_params.name
  client,        \* the cached _client: handle (0 = not cached) and whether closed
  index,         \* the cached _index
  calls,         \* calls made into the library by the last operation, in order
  last,          \* the last operation: its inputs and the caches it started from
  result,        \* how the last operation ended: error raised, value returned
  nOps,          \* operations performed so far
  nConnect,      \* connect calls so far
  nConnectFail,  \* connect calls that raised
  nExists,       \* collections.exists calls so far
  nCreate,       \* collections.create calls so far
  nFail          \* add / retrieve operations that raised

vars == <<mode, index_name, params_name, client, index, calls, last, result,
          nOps, nConnect, nConnectFail, nExists, nCreate, nFail>>

config == <<mode, index_name, params_name>>

NoClient == [h |-> 0, closed |-> FALSE]
NoIndex == [via |-> "unset", name |-> NoneVal, h |-> 0]
NoDocs == <<>>

\* One call into the library or the chunker: the function, the collection name
\* it is given, the data objects, the text, the keyword arguments, the client
\* handle it is made on (0 for the module-level connect functions and the
\* chunker), the error it raised (NoErr when it returned) and what it returned.
Call(fn, name, objs, text, kw, h, raised, ret) ==
  [fn |-> fn, name |-> name, objs |-> objs, text |-> text, kw |-> kw, h |-> h,
   raised |-> raised, ret |-> ret]

RaisedBy(fault, point) == IF fault.at = point THEN fault.err ELSE NoErr

Truthy(s) == s # NoneVal /\ s # ""

Bool(b) == IF b THEN <<"True">> ELSE <<"False">>

\* ------------------------------------------------------------- _client
ConnectFns == {"connect_to_local", "connect_to_embedded",
               "connect_to_weaviate_cloud", "connect_to_custom"}

\* The cloud and custom branches exchanged.
ConnectFn_swapped(m) ==
  CASE m = "local" -> "connect_to_local"
    [] m = "embedded" -> "connect_to_embedded"
    [] m = "cloud" -> "connect_to_custom"
    [] m = "custom" -> "connect_to_weaviate_cloud"

ConnectFn(m) ==
  CASE m = "local" -> "connect_to_local"
    [] m = "embedded" -> "connect_to_embedded"
    [] m = "cloud" -> "connect_to_weaviate_cloud"
    [] m = "custom" -> "connect_to_custom"

\* The getter of _client: the connect function of the configured mode, called
\* with the settings' keyword arguments.  The handle it returns is numbered by
\* the connect call that produced it.
_client_connect(c, fault) ==
  LET e == RaisedBy(fault, "connect")
      call == Call(ConnectFn(mode), NoneVal, NoDocs, "", SettingsKwargs, 0, e, <<>>)
  IN IF e # NoErr
     THEN [client |-> c, calls |-> <<call>>, err |-> e]
     ELSE [client |-> [h |-> nConnect + 1, closed |-> FALSE],
           calls |-> <<call>>, err |-> NoErr]

\* A property read without the cache: every read connects.
_client_nocache(c, fault) == _client_connect(c, fault)

\* A getter that stores the handle although connect raised.
_client_cache_failed(c, fault) ==
  IF c.h # 0
  THEN [client |-> c, calls |-> <<>>, err |-> NoErr]
  ELSE LET r == _client_connect(c, fault)
       IN [r EXCEPT !.client = [h |-> nConnect + 1, closed |-> FALSE]]

\* cached_property: the getter runs when nothing is cached, and its value is
\* stored only when it returns.
_client(c, fault) ==
  IF c.h # 0
  THEN [client |-> c, calls |-> <<>>, err |-> NoErr]
  ELSE _client_connect(c, fault)

\* ------------------------------------------------------------- _index
\* vectorstore_params.kwargs()["name"] after the conditional model_copy.
ParamsName == IF Truthy(index_name) THEN index_name ELSE params_name

\* The getter of _index: exists, then get or create.
_index_resolve(c, idx, fault, existsAns) ==
  LET cl == _client(c, fault)
      h == cl.client.h
      eE == RaisedBy(fault, "exists")
      eG == RaisedBy(fault, "get")
      eC == RaisedBy(fault, "create")
      exists == Call("exists", index_name, NoDocs, "", NoKw, h, eE,
                     IF eE = NoErr THEN Bool(existsAns) ELSE <<>>)
      get == Call("get", index_name, NoDocs, "", NoKw, h, eG, <<>>)
      create == Call("create", ParamsName, NoDocs, "", NoKw, h, eC, <<>>)
      out(cs, e, i) == [client |-> cl.client, index |-> i, calls |-> cs, err |-> e]
  IN IF cl.err # NoErr THEN out(cl.calls, cl.err, idx)
     ELSE IF eE # NoErr THEN out(cl.calls \o <<exists>>, eE, idx)
     ELSE IF existsAns
       THEN IF eG # NoErr
            THEN out(cl.calls \o <<exists, get>>, eG, idx)
            ELSE out(cl.calls \o <<exists, get>>, NoErr,
                     [via |-> "get", name |-> index_name, h |-> h])
       ELSE IF eC # NoErr
            THEN out(cl.calls \o <<exists, create>>, eC, idx)
            ELSE out(cl.calls \o <<exists, create>>, NoErr,
                     [via |-> "create", name |-> ParamsName, h |-> h])

\* A property read without the cache: every read runs the exists check.
_index_nocache(c, idx, fault, existsAns) == _index_resolve(c, idx, fault, existsAns)

_index(c, idx, fault, existsAns) ==
  IF idx.via # "unset"
  THEN [client |-> c, index |-> idx, calls |-> <<>>, err |-> NoErr]
  ELSE _index_resolve(c, idx, fault, existsAns)

\* ------------------------------------------------------------- add
NoVal == [kind |-> "None", of |-> ""]

\* The text and the id exchanged.
DataObject_swapped(document) == [text |-> document.id, uuid |-> document.text]

\* wvc.data.DataObject(properties={"text": document.text}, uuid=document.id)
DataObject(document) == [text |-> document.text, uuid |-> document.id]

DataObjects(documents) == [i \in 1..Len(documents) |-> DataObject(documents[i])]

Outcome(c, i, cs, e, v) == [client |-> c, index |-> i, calls |-> cs, err |-> e, val |-> v]

\* documents[0] read before the collection handle is resolved.
add_one_eager(documents, kw, pre, fault, existsAns) ==
  IF Len(documents) = 0
  THEN Outcome(client, index, pre, IndexError, NoVal)
  ELSE LET ix == _index(client, index, fault, existsAns)
           cs == pre \o ix.calls
           e == RaisedBy(fault, "insert")
           insert == Call("insert", ix.index.name, <<DataObject(documents[1])>>,
                          "", kw, ix.index.h, e, <<>>)
       IN IF ix.err # NoErr THEN Outcome(ix.client, ix.index, cs, ix.err, NoVal)
          ELSE Outcome(ix.client, ix.index, cs \o <<insert>>, e,
                       IF e = NoErr THEN [kind |-> "insert", of |-> ""] ELSE NoVal)

\* The single-document branch: self._index.data.insert is evaluated before its
\* arguments, so documents[0] is read after the collection handle is resolved.
add_one(documents, kw, pre, fault, existsAns) ==
  LET ix == _index(client, index, fault, existsAns)
      cs == pre \o ix.calls
      e == RaisedBy(fault, "insert")
  IN IF ix.err # NoErr THEN Outcome(ix.client, ix.index, cs, ix.err, NoVal)
     ELSE IF Len(documents) = 0
       THEN Outcome(ix.client, ix.index, cs, IndexError, NoVal)
       ELSE LET insert == Call("insert", ix.index.name, <<DataObject(documents[1])>>,
                               "", kw, ix.index.h, e, <<>>)
            IN Outcome(ix.client, ix.index, cs \o <<insert>>, e,
                       IF e = NoErr THEN [kind |-> "insert", of |-> ""] ELSE NoVal)

\* The batch branch: the data objects are built first, then the handle resolved.
add_many(documents, pre, fault, existsAns) ==
  LET data_objects == DataObjects(documents)
      ix == _index(client, index, fault, existsAns)
      cs == pre \o ix.calls
      e == RaisedBy(fault, "insert_many")
  IN IF ix.err # NoErr THEN Outcome(ix.client, ix.index, cs, ix.err, NoVal)
     ELSE LET insert_many == Call("insert_many", ix.index.name, data_objects,
                                  "", NoKw, ix.index.h, e, <<>>)
          IN Outcome(ix.client, ix.index, cs \o <<insert_many>>, e,
                     IF e = NoErr THEN [kind |-> "insert_many", of |-> ""] ELSE NoVal)

\* The batch threshold off by one: two documents take the single insert.
add_threshold(isStr, s, lst, kw, fault, existsAns, chunked) ==
  LET eK == RaisedBy(fault, "chunk")
      pre == IF isStr THEN <<Call("chunk", NoneVal, NoDocs, s, NoKw, 0, eK, <<>>)>>
             ELSE <<>>
      documents == IF isStr THEN chunked ELSE lst
  IN IF isStr /\ eK # NoErr THEN Outcome(client, index, pre, eK, NoVal)
     ELSE IF Len(documents) <= 2 THEN add_one(documents, kw, pre, fault, existsAns)
     ELSE add_many(documents, pre, fault, existsAns)

\* text is a str (isStr, s) or a list of documents (lst); chunked is what the
\* chunker returns for s.
add(isStr, s, lst, kw, fault, existsAns, chunked) ==
  LET eK == RaisedBy(fault, "chunk")
      pre == IF isStr THEN <<Call("chunk", NoneVal, NoDocs, s, NoKw, 0, eK, <<>>)>>
             ELSE <<>>
      documents == IF isStr THEN chunked ELSE lst
  IN IF isStr /\ eK # NoErr THEN Outcome(client, index, pre, eK, NoVal)
     ELSE IF Len(documents) < 2 THEN add_one(documents, kw, pre, fault, existsAns)
     ELSE add_many(documents, pre, fault, existsAns)

\* ------------------------------------------------------------- retrieve
\* WeaviateQueryResult.from_response(result)
from_response(obj) == [kind |-> "WeaviateQueryResult", of |-> obj]

\* The last object of the response instead of the first.
retrieve_last(text, kw, fault, existsAns, response) ==
  LET ix == _index(client, index, fault, existsAns)
      e == RaisedBy(fault, "near_text")
      near_text == Call("near_text", ix.index.name, NoDocs, text, kw, ix.index.h, e,
                        IF e = NoErr THEN response ELSE <<>>)
      cs == ix.calls \o <<near_text>>
  IN IF ix.err # NoErr THEN Outcome(ix.client, ix.index, ix.calls, ix.err, NoVal)
     ELSE IF e # NoErr THEN Outcome(ix.client, ix.index, cs, e, NoVal)
     ELSE IF Len(response) = 0 THEN Outcome(ix.client, ix.index, cs, IndexError, NoVal)
     ELSE Outcome(ix.client, ix.index, cs, NoErr, from_response(response[Len(response)]))

retrieve(text, kw, fault, existsAns, response) ==
  LET ix == _index(client, index, fault, existsAns)
      e == RaisedBy(fault, "near_text")
      near_text == Call("near_text", ix.index.name, NoDocs, text, kw, ix.index.h, e,
                        IF e = NoErr THEN response ELSE <<>>)
      cs == ix.calls \o <<near_text>>
  IN IF ix.err # NoErr THEN Outcome(ix.client, ix.index, ix.calls, ix.err, NoVal)
     ELSE IF e # NoErr THEN Outcome(ix.client, ix.index, cs, e, NoVal)
     ELSE IF Len(response) = 0 THEN Outcome(ix.client, ix.index, cs, IndexError, NoVal)
     ELSE Outcome(ix.client, ix.index, cs, NoErr, from_response(response[1]))

\* ------------------------------------------------------------- close_connection
\* A close that swallows what the client raises.
close_connection_swallow(fault) ==
  LET cl == _client(client, fault)
      e == RaisedBy(fault, "close")
      close == Call("close", NoneVal, NoDocs, "", NoKw, cl.client.h, e, <<>>)
  IN IF cl.err # NoErr THEN Outcome(cl.client, index, cl.calls, cl.err, NoVal)
     ELSE Outcome(cl.client, index, cl.calls \o <<close>>, NoErr, NoVal)

close_connection(fault) ==
  LET cl == _client(client, fault)
      e == RaisedBy(fault, "close")
      close == Call("close", NoneVal, NoDocs, "", NoKw, cl.client.h, e, <<>>)
  IN IF cl.err # NoErr THEN Outcome(cl.client, index, cl.calls, cl.err, NoVal)
     ELSE Outcome(IF e = NoErr THEN [cl.client EXCEPT !.closed = TRUE] ELSE cl.client,
                  index, cl.calls \o <<close>>, e, NoVal)

\* ------------------------------------------------------------- the state machine
Count(cs, fns) == Cardinality({i \in DOMAIN cs : cs[i].fn \in fns})
CountRaised(cs, fns) == Cardinality({i \in DOMAIN cs : cs[i].fn \in fns /\ cs[i].raised # NoErr})

NoOp == [op |-> "none", isStr |-> FALSE, text |-> "", docs |-> NoDocs,
         chunked |-> NoDocs, kw |-> NoKw, client0 |-> 0, index0 |-> "unset"]

Init ==
  /\ mode \in Modes
  /\ index_name \in IndexNames
  /\ params_name \in ParamNames
  /\ client = NoClient
  /\ index = NoIndex
  /\ calls = <<>>
  /\ last = NoOp
  /\ result = [err |-> NoErr, val |-> NoVal]
  /\ nOps = 0 /\ nConnect = 0 /\ nConnectFail = 0
  /\ nExists = 0 /\ nCreate = 0 /\ nFail = 0

\* The operation named by inp ended as r: store the caches and the history.
Finish(inp, r) ==
  /\ client' = r.client
  /\ index' = r.index
  /\ calls' = r.calls
  /\ result' = [err |-> r.err, val |-> r.val]
  /\ last' = [inp EXCEPT !.client0 = client.h, !.index0 = index.via]
  /\ nOps' = nOps + 1
  /\ nConnect' = nConnect + Count(r.calls, ConnectFns)
  /\ nConnectFail' = nConnectFail + CountRaised(r.calls, ConnectFns)
  /\ nExists' = nExists + Count(r.calls, {"exists"})
  /\ nCreate' = nCreate + Count(r.calls, {"create"})
  /\ nFail' = nFail + (IF inp.op # "close" /\ r.err # NoErr THEN 1 ELSE 0)
  /\ UNCHANGED config

FaultsAt(points) == {f \in Faults : f.at \in points \cup {"none"}}

\* The calls an operation makes while resolving the collection handle from the
\* current caches, and the answers exists can give: the environment chooses an
\* outcome only for calls that are made.
ResolvePoints ==
  IF index.via # "unset" THEN {}
  ELSE (IF client.h = 0 THEN {"connect"} ELSE {}) \cup {"exists", "get", "create"}
ExistsAnswers == IF index.via # "unset" THEN {FALSE} ELSE BOOLEAN
InsertPoint(documents) ==
  IF Len(documents) = 0 THEN {} ELSE IF Len(documents) = 1 THEN {"insert"}
  ELSE {"insert_many"}

AddStr ==
  /\ nOps < MaxOps
  /\ \E a \in TextArgs, chunked \in DocLists, existsAns \in ExistsAnswers :
       \E fault \in FaultsAt(ResolvePoints \cup InsertPoint(chunked)) :
         \E r \in {add(TRUE, a.text, NoDocs, a.kw, fault, existsAns, chunked)} :
           Finish([NoOp EXCEPT !.op = "add", !.isStr = TRUE, !.text = a.text,
                               !.kw = a.kw, !.chunked = chunked], r)

\* The chunker raises: it returns no documents.
AddStrChunkFails ==
  /\ nOps < MaxOps
  /\ \E a \in TextArgs, fault \in FaultsAt({"chunk"}) \ {NoFault} :
       \E r \in {add(TRUE, a.text, NoDocs, a.kw, fault, FALSE, NoDocs)} :
         Finish([NoOp EXCEPT !.op = "add", !.isStr = TRUE, !.text = a.text,
                             !.kw = a.kw], r)

AddDocs ==
  /\ nOps < MaxOps
  /\ \E lst \in DocLists, kw \in Kwargs, existsAns \in ExistsAnswers :
       \E fault \in FaultsAt(ResolvePoints \cup InsertPoint(lst)) :
         \E r \in {add(FALSE, "", lst, kw, fault, existsAns, NoDocs)} :
           Finish([NoOp EXCEPT !.op = "add", !.docs = lst, !.kw = kw], r)

\* near_text answers with a response only when no call of the operation raises.
Retrieve ==
  /\ nOps < MaxOps
  /\ \E a \in TextArgs, existsAns \in ExistsAnswers,
        fault \in FaultsAt(ResolvePoints \cup {"near_text"}) :
       \E response \in (IF fault = NoFault THEN Responses ELSE {<<>>}) :
         \E r \in {retrieve(a.text, a.kw, fault, existsAns, response)} :
           Finish([NoOp EXCEPT !.op = "retrieve", !.text = a.text, !.kw = a.kw], r)

CloseConnection ==
  /\ nOps < MaxOps
  /\ \E fault \in FaultsAt((IF client.h = 0 THEN {"connect"} ELSE {}) \cup {"close"}) :
       \E r \in {close_connection(fault)} :
         Finish([NoOp EXCEPT !.op = "close"], r)

Next == AddStr \/ AddStrChunkFails \/ AddDocs \/ Retrieve \/ CloseConnection

Spec == Init /\ [][Next]_vars

\* ------------------------------------------------------------- reading the history
\* The positions of the last operation's calls to the functions fns.
At(fns) == {i \in DOMAIN calls : calls[i].fn \in fns}
N(fns) == Cardinality(At(fns))
Returned(fns) == {i \in At(fns) : calls[i].raised = NoErr}
SomeRaised == \E i \in DOMAIN calls : calls[i].raised # NoErr

\* The documents add had to insert: the chunker's result or the list given.
Documents == IF last.isStr THEN last.chunked ELSE last.docs
ChunkRaised == \E i \in At({"chunk"}) : calls[i].raised # NoErr
\* The last operation got as far as reading self._index ...
AddReached == last.op = "add" /\ ~ChunkRaised
UsesIndex == AddReached \/ last.op = "retrieve"
\* ... and as far as reading self._client.
UsesClient == last.op = "close" \/ (UsesIndex /\ last.index0 = "unset")
\* The last operation held a collection handle (cached before or resolved by it).
HasIndex == UsesIndex /\ index.via # "unset"
\* The data objects the last operation handed to insert and insert_many, in order.
Inserted ==
  LET at == At({"insert", "insert_many"})
  IN IF at = {} THEN <<>> ELSE calls[CHOOSE i \in at : TRUE].objs
SameDocuments(objs, documents) ==
  /\ Len(objs) = Len(documents)
  /\ \A i \in DOMAIN documents :
       objs[i].text = documents[i].text /\ objs[i].uuid = documents[i].id

\* ------------------------------------------------------------- C1
\* C1: the connection is opened lazily and cached: a new store has opened no
\* connection; an operation that reads the client when none is cached calls a
\* connect function, one that finds it cached calls none; while no connect call
\* has raised, connect has been called at most once in all, also after
\* close_connection, and every call is made on that one handle.
C1_LazyCachedClient ==
  /\ nOps = 0 => nConnect = 0 /\ client = NoClient
  /\ UsesClient /\ last.client0 = 0 => N(ConnectFns) = 1
  /\ last.client0 # 0 => N(ConnectFns) = 0 /\ client.h = last.client0
  /\ nConnectFail = 0 => nConnect <= 1
  /\ nConnectFail = 0 => \A i \in DOMAIN calls : calls[i].h \in {0, 1}
  /\ \A i \in Returned({"close"}) : client.closed /\ client.h = calls[i].h
  /\ client.closed => client.h # 0

\* After close_connection connected and closed, a retrieve or add runs its calls
\* on the closed handle without connecting.
C1_Witness ==
  /\ nOps = 2 /\ nConnect = 1 /\ nConnectFail = 0
  /\ client.closed /\ UsesIndex /\ last.index0 = "unset"
  /\ At({"exists"}) # {} /\ \A i \in At({"exists"}) : calls[i].h = client.h

C3_ConnectByMode ==
  \A i \in At(ConnectFns) :
    /\ mode = "local" => calls[i].fn = "connect_to_local"
    /\ mode = "embedded" => calls[i].fn = "connect_to_embedded"
    /\ mode = "cloud" => calls[i].fn = "connect_to_weaviate_cloud"
    /\ mode = "custom" => calls[i].fn = "connect_to_custom"
    /\ calls[i].kw = SettingsKwargs
    /\ N(ConnectFns) = 1
    /\ calls[i].raised = NoErr => client.h # 0

\* In cloud mode the client was opened by connect_to_weaviate_cloud.
C3_Witness ==
  /\ mode = "cloud" /\ client.h # 0
  /\ \E i \in Returned(ConnectFns) : calls[i].fn = "connect_to_weaviate_cloud"

\* ------------------------------------------------------------- C4
\* C4: an add that holds the collection handle makes, for more than one
\* document, one insert_many call carrying one data object per document in the
\* input order and no insert call; for exactly one document, one insert call for
\* that document and no insert_many call.
C4_SingleOrBatch ==
  AddReached /\ HasIndex =>
    /\ Len(Documents) > 1 =>
         /\ N({"insert_many"}) = 1 /\ N({"insert"}) = 0
         /\ \A i \in At({"insert_many"}) : SameDocuments(calls[i].objs, Documents)
    /\ Len(Documents) = 1 =>
         /\ N({"insert"}) = 1 /\ N({"insert_many"}) = 0
         /\ \A i \in At({"insert"}) : SameDocuments(calls[i].objs, Documents)

\* A list of two documents went out in one insert_many call.
C4_Witness ==
  /\ last.op = "add" /\ ~last.isStr /\ Len(last.docs) = 2
  /\ Returned({"insert_many"}) # {} /\ result.err = NoErr

\* ------------------------------------------------------------- C5
\* C5: given a string, add calls the chunker once, first, on that string, and
\* inserts the documents it returns; given a list, add never calls the chunker
\* and inserts that list.  An add that holds the collection handle hands over
\* exactly those documents, in order, each with its text as "text" and its id as
\* uuid.
C5_ChunkOrAccept ==
  last.op = "add" =>
    /\ last.isStr => /\ At({"chunk"}) = {1}
                     /\ calls[1].text = last.text
    /\ ~last.isStr => N({"chunk"}) = 0
    /\ N({"insert"}) + N({"insert_many"}) <= 1
    /\ HasIndex /\ AddReached => SameDocuments(Inserted, Documents)

\* A string chunked into two documents, both inserted.
C5_Witness ==
  /\ last.op = "add" /\ last.isStr /\ Len(last.chunked) = 2
  /\ Len(Inserted) = 2 /\ result.err = NoErr

\* ------------------------------------------------------------- C6
\* C6: a retrieve never inserts; one that holds the collection handle makes one
\* near_text call with the query text and the caller's keyword arguments, and
\* returns the result built from the first object of the response; when the
\* response has no objects it ends in an error and returns nothing.
C6_RetrieveTop ==
  last.op = "retrieve" =>
    /\ N({"insert", "insert_many", "chunk"}) = 0
    /\ HasIndex =>
         /\ N({"near_text"}) = 1
         /\ \A i \in At({"near_text"}) :
              /\ calls[i].text = last.text /\ calls[i].kw = last.kw
              /\ calls[i].raised = NoErr /\ Len(calls[i].ret) > 0 =>
                   /\ result.err = NoErr
                   /\ result.val = [kind |-> "WeaviateQueryResult", of |-> calls[i].ret[1]]
              /\ calls[i].raised = NoErr /\ Len(calls[i].ret) = 0 =>
                   result.err = IndexError /\ result.val = NoVal
    /\ ~HasIndex => N({"near_text"}) = 0

\* A response of two objects: the first one is returned.
C6_Witness ==
  /\ last.op = "retrieve" /\ result.err = NoErr
  /\ \E i \in At({"near_text"}) : Len(calls[i].ret) = 2

\* ------------------------------------------------------------- C7
\* C7: a call that raises is the last call of its operation and the operation
\* ends with that error; no underlying call is made twice in one operation.
C7_Forwarded ==
  /\ \A i \in DOMAIN calls :
       calls[i].raised # NoErr =>
         i = Len(calls) /\ result.err = calls[i].raised /\ result.val = NoVal
  /\ \A fn \in {"exists", "get", "create", "insert", "insert_many", "near_text",
                "close", "chunk"} : N({fn}) <= 1
  /\ N(ConnectFns) <= 1

\* close raised and close_connection ended with that error.
C7_Witness ==
  /\ last.op = "close" /\ result.err \in Errors
  /\ \E i \in At({"close"}) : calls[i].raised = result.err

\* ------------------------------------------------------------- C8
\* C8 as stated: the name given to exists and to get is the name given to create.
C8_Original ==
  \A i \in At({"exists", "get"}), j \in At({"create"}) : calls[i].name = calls[j].name

\* ------------------------------------------------------------- C9
\* C9: an add with zero documents makes no insert and no insert_many call and
\* ends in an error; the error for the missing document comes only once the
\* collection handle is held, so on a store with nothing cached the connect
\* call, the exists check and get or create have returned before it.
C9_EmptyAdd ==
  AddReached /\ Len(Documents) = 0 =>
    /\ N({"insert", "insert_many"}) = 0
    /\ result.err # NoErr
    /\ ~SomeRaised => result.err = IndexError
    /\ result.err = IndexError =>
         /\ index.via # "unset" /\ client.h # 0
         /\ last.client0 = 0 =>
              /\ Cardinality(Returned(ConnectFns)) = 1
              /\ Cardinality(Returned({"exists"})) = 1
              /\ Cardinality(Returned({"get", "create"})) = 1

\* An empty list given to a new store: connected, created, then IndexError.
C9_Witness ==
  /\ nOps = 1 /\ last.op = "add" /\ ~last.isStr /\ last.docs = <<>>
  /\ result.err = IndexError /\ index.via = "create"

\* ------------------------------------------------------------- C10
\* C10: a failed lazy initialisation is not cached.  When connect raises, no
\* client handle is stored, and an operation that reads the client with none
\* stored connects again.  When exists, get or create raises, no collection
\* handle is stored while the client stays cached, and the next operation that
\* reads the collection runs exists again without reconnecting.  A handle is
\* stored only by an operation in which the call producing it returned.
C10_FailureNotCached ==
  /\ (\E i \in At(ConnectFns) : calls[i].raised # NoErr) => client.h = 0 /\ index.via = "unset"
  /\ (\E i \in At({"exists", "get", "create"}) : calls[i].raised # NoErr) =>
       index.via = "unset" /\ client.h # 0
  /\ UsesClient /\ last.client0 = 0 => N(ConnectFns) = 1
  /\ UsesIndex /\ last.index0 = "unset" /\ last.client0 # 0 =>
       N({"exists"}) = 1 /\ N(ConnectFns) = 0
  /\ last.client0 = 0 /\ client.h # 0 => Returned(ConnectFns) # {}
  /\ last.index0 = "unset" /\ index.via # "unset" => Returned({"get", "create"}) # {}
  /\ client.h # 0 => nConnect > nConnectFail

\* connect raised in the first operation; the second connected again and got a
\* handle.
C10_Witness ==
  /\ nOps = 2 /\ nConnectFail = 1 /\ nConnect = 2
  /\ last.client0 = 0 /\ client.h # 0

====
